---- MODULE Spec2Model ----
(***************************************************************************)
(* Model of pocketflow/mermaid.py: visualize(flow, namespace, ...), the    *)
(* export of a flow graph to a Mermaid flowchart.                          *)
(*                                                                         *)
(* Objects are identified by positive integers (Python's id(obj)); None is *)
(* 0.  An object's `successors` dict is a function whose DOMAIN is the set *)
(* of keys present; a key may map to None.  `start_node` is None for an    *)
(* object that is not a Flow (the attribute is only read behind an         *)
(* isinstance(..., Flow) test, or, in the body/exit traversals, not at     *)
(* all).  The call is modelled section by section; every local of the call *)
(* that a later section reads is a variable.                               *)
(***************************************************************************)
EXTENDS Integers, Sequences, FiniteSets, TLC

VARIABLES
    is_flow, start_node, successors,
    namespace, direction, show_default, highlight_starts, max_nodes,
    pc, error,
    visit_order, edges,
    body_by_flow_id, container_flow_by_node_id, parent_flow_by_flow_id,
    pending, render_edges, exit_cache,
    lines, warnings

graph_vars == <<is_flow, start_node, successors>>
arg_vars == <<namespace, direction, show_default, highlight_starts, max_nodes>>
discovery_vars == <<visit_order, edges>>
containment_vars == <<body_by_flow_id, container_flow_by_node_id, parent_flow_by_flow_id>>
rewrite_vars == <<pending, render_edges, exit_cache>>
output_vars == <<lines, warnings>>
vars == <<graph_vars, arg_vars, pc, error, discovery_vars, containment_vars,
          rewrite_vars, output_vars>>

(***************************************************************************)
(* Bounds of the input space.                                              *)
(***************************************************************************)
MaxObjs == 3
MaxBranchObjs == 2
MaxNames == 2

\* The default of max_nodes.
DefaultMaxNodes == 1000

None == 0
flow == 1

Ids == DOMAIN is_flow

\* The action labels used as successors keys, in sorted() order.
ActionOrder == <<"default", "x|y">>

SeqToSet(s) == {s[i] : i \in 1..Len(s)}

Dicts(K, V) == UNION {[S -> V] : S \in SUBSET K}

\* _sort_keys(d): the keys of d, sorted.
_sort_keys(d) == SelectSeq(ActionOrder, LAMBDA a : a \in DOMAIN d)

\* The non-None values of obj.successors in sorted key order: what the
\* traversals append to their queue for obj.
SuccTargets(obj) ==
    LET succ == successors[obj]
        ks == SelectSeq(_sort_keys(succ), LAMBDA a : succ[a] # None)
    IN  [i \in 1..Len(ks) |-> succ[ks[i]]]

\* The edge triples recorded while expanding obj.
SuccEdges(obj) ==
    {<<obj, a, successors[obj][a]>> : a \in {k \in DOMAIN successors[obj] : successors[obj][k] # None}}

(***************************************************************************)
(* 1) Discover global nodes/edges.                                         *)
(***************************************************************************)
\* A faulty StartTargets: a Flow's start_node is not followed.
StartTargetsForgotten(curr) == <<>>

\* Lines 112-113: what a Flow adds to the queue before its successors.
StartTargets(curr) ==
    IF is_flow[curr] /\ start_node[curr] # None THEN <<start_node[curr]>> ELSE <<>>

\* A faulty BudgetExceeded: the budget is taken as exclusive.
BudgetExceededOffByOne(order) == Len(order) >= max_nodes

\* Line 109: the test made after each newly visited object.
BudgetExceeded(order) == Len(order) > max_nodes

RECURSIVE DiscoverLoop(_, _, _)
DiscoverLoop(queue, order, es) ==
    IF queue = <<>> THEN [raised |-> FALSE, visit_order |-> order, edges |-> es]
    ELSE LET curr == Head(queue)
             rest == Tail(queue)
         IN  IF curr = None \/ curr \in SeqToSet(order)
             THEN DiscoverLoop(rest, order, es)
             ELSE LET order1 == Append(order, curr)
                      q1 == rest \o StartTargets(curr)
                  IN  IF BudgetExceeded(order1)
                      THEN [raised |-> TRUE, visit_order |-> order1, edges |-> es]
                      ELSE DiscoverLoop(q1 \o SuccTargets(curr), order1, es \cup SuccEdges(curr))

Discovery == DiscoverLoop(<<flow>>, <<>>, {})

visited == SeqToSet(visit_order)

\* order_index_by_obj_id: the 0-based position in visit_order (discovered objects only).
order_index_by_obj_id ==
    [oid \in visited |-> (CHOOSE i \in 1..Len(visit_order) : visit_order[i] = oid) - 1]

\* mermaid_id_by_obj_id[oid] is "n<i>".
mermaid_id_by_obj_id == [oid \in visited |-> "n" \o ToString(order_index_by_obj_id[oid])]

(***************************************************************************)
(* 2) Per-flow body nodes, 3) containment.                                 *)
(***************************************************************************)
flow_ids == SelectSeq(visit_order, LAMBDA oid : is_flow[oid])

RECURSIVE BodyLoop(_, _)
BodyLoop(q, seen) ==
    IF q = <<>> THEN seen
    ELSE LET n == Head(q)
         IN  IF n = None \/ n \in seen
             THEN BodyLoop(Tail(q), seen)
             ELSE BodyLoop(Tail(q) \o SuccTargets(n), seen \cup {n})

Body(fid) == IF start_node[fid] = None THEN {} ELSE BodyLoop(<<start_node[fid]>>, {})

\* container_flow_by_node_id.setdefault(nid, fid) over flow_ids in order: the
\* first flow whose body holds nid.  None stands for a missing key.
FirstContainer(bodies, nid) ==
    LET claim == {i \in 1..Len(flow_ids) : nid \in bodies[flow_ids[i]]}
    IN  IF claim = {} THEN None
        ELSE flow_ids[CHOOSE i \in claim : \A j \in claim : i <= j]

Containers(bodies) == [nid \in visited |-> FirstContainer(bodies, nid)]

\* A faulty Parents: the `parent != fid` test is dropped.
ParentsAllowSelf(containers) ==
    [fid \in SeqToSet(flow_ids) |->
        IF containers[fid] # None /\ is_flow[containers[fid]] THEN containers[fid] ELSE None]

\* parent_flow_by_flow_id: None stands for a missing key.
Parents(containers) ==
    [fid \in SeqToSet(flow_ids) |->
        IF containers[fid] # None /\ containers[fid] # fid /\ is_flow[containers[fid]]
        THEN containers[fid]
        ELSE None]

(***************************************************************************)
(* 4) Real start, expansion, entry and exit sources.                       *)
(***************************************************************************)
\* A faulty RealStartLoop: a repeated identity is returned, not None.
RECURSIVE RealStartLoopKeepsRepeat(_, _)
RealStartLoopKeepsRepeat(x, seen) ==
    IF x # None /\ is_flow[x] /\ start_node[x] # None
    THEN IF x \in seen THEN x ELSE RealStartLoopKeepsRepeat(start_node[x], seen \cup {x})
    ELSE x

\* The while loop of _real_start; real_start_cache only memoizes this value.
RECURSIVE RealStartLoop(_, _)
RealStartLoop(x, seen) ==
    IF x # None /\ is_flow[x] /\ start_node[x] # None
    THEN IF x \in seen THEN None ELSE RealStartLoop(start_node[x], seen \cup {x})
    ELSE x

\* A faulty _real_start: the start_node is taken without following the chain.
RealStartOneHop(flow_obj) == start_node[flow_obj]

_real_start(flow_obj) == RealStartLoop(start_node[flow_obj], {})

_is_expanded_flow(obj) ==
    is_flow[obj] /\ start_node[obj] # None /\ _real_start(obj) # None

_entry_oid(obj) == IF _is_expanded_flow(obj) THEN _real_start(obj) ELSE obj

\* The local traversal of _exit_source_oids: the reached objects whose
\* successors dict is empty.
RECURSIVE LeavesLoop(_, _, _)
LeavesLoop(q, seen, leaves) ==
    IF q = <<>> THEN leaves
    ELSE LET n == Head(q)
         IN  IF n = None \/ n \in seen
             THEN LeavesLoop(Tail(q), seen, leaves)
             ELSE IF DOMAIN successors[n] # {}
                  THEN LeavesLoop(Tail(q) \o SuccTargets(n), seen \cup {n}, leaves)
                  ELSE LeavesLoop(Tail(q), seen \cup {n}, leaves \cup {n})

Leaves(start) == LeavesLoop(<<start>>, {}, {})

\* _exit_source_oids(obj) with its two closure variables threaded through:
\* cache is exit_cache (a function on the flows memoized so far), computing
\* is exit_computing.  `for lid in leaves` iterates a Python set, whose
\* order the program does not fix: ord is the order in which the expanded
\* leaf flows (the only leaves whose handling reads or writes the cache)
\* are taken.  The value is [oids |-> the returned set, cache |-> exit_cache
\* after the call].
RECURSIVE _exit_source_oids(_, _, _, _)
RECURSIVE ResolveLeaves(_, _, _, _, _)
ResolveLeaves(ls, cache, computing, ord, resolved) ==
    IF ls = <<>> THEN [oids |-> resolved, cache |-> cache]
    ELSE LET r == _exit_source_oids(Head(ls), cache, computing, ord)
         IN  ResolveLeaves(Tail(ls), r.cache, computing, ord, resolved \cup r.oids)

_exit_source_oids(obj, cache, computing, ord) ==
    IF ~_is_expanded_flow(obj) THEN [oids |-> {obj}, cache |-> cache]
    ELSE IF obj \in DOMAIN cache THEN [oids |-> cache[obj], cache |-> cache]
    ELSE IF obj \in computing THEN [oids |-> {_real_start(obj)}, cache |-> cache]
    ELSE LET leaves == Leaves(start_node[obj]) \cap visited
             plain == {l \in leaves : ~_is_expanded_flow(l)}
             nested == SelectSeq(ord, LAMBDA l : l \in leaves /\ _is_expanded_flow(l))
             r == ResolveLeaves(nested, cache, computing \cup {obj}, ord, plain)
             resolved == IF r.oids = {} THEN {_real_start(obj)} ELSE r.oids
             result == IF resolved = {} THEN {obj} ELSE resolved
         IN  [oids |-> result, cache |-> (obj :> result) @@ r.cache]

expanded_flow_ids == {oid \in SeqToSet(flow_ids) : _is_expanded_flow(oid)}

\* The orders in which a leaf set can be iterated, as far as they matter.
Perms(S) == {p \in [1..Cardinality(S) -> S] : \A i, j \in 1..Cardinality(S) : i # j => p[i] # p[j]}

LeafOrders == Perms({oid \in expanded_flow_ids : DOMAIN successors[oid] = {}})

\* One iteration of the loop over `edges` (lines 232-239), from the rewritten
\* edges redges and the exit_cache cache.
RewriteOne(e, ord, redges, cache) ==
    LET r == _exit_source_oids(e[1], cache, {}, ord)
    IN  [render_edges |-> redges \cup {<<s_oid, e[2], _entry_oid(e[3])>> : s_oid \in r.oids},
         exit_cache |-> r.cache]

(***************************************************************************)
(* Edge containers and buckets.                                            *)
(***************************************************************************)
RECURSIVE AncestorsLoop(_, _)
AncestorsLoop(container_fid, seen) ==
    IF container_fid # None /\ container_fid \notin seen
    THEN <<container_fid>> \o AncestorsLoop(parent_flow_by_flow_id[container_fid], seen \cup {container_fid})
    ELSE <<None>>

_ancestors(container_fid) == AncestorsLoop(container_fid, {})

_edge_container(src_oid, tgt_oid) ==
    LET src_anc == _ancestors(container_flow_by_node_id[src_oid])
        tgt_anc == SeqToSet(_ancestors(container_flow_by_node_id[tgt_oid]))
        common == {i \in 1..Len(src_anc) : src_anc[i] \in tgt_anc}
    IN  IF common = {} THEN None
        ELSE src_anc[CHOOSE i \in common : \A j \in common : i <= j]

ActionRank(act) == CHOOSE i \in 1..Len(ActionOrder) : ActionOrder[i] = act

\* The sort key (order index of source, action, order index of target), compared as tuples.
EdgeKeyLeq(e, f) ==
    LET es == order_index_by_obj_id[e[1]]
        fs == order_index_by_obj_id[f[1]]
        ea == ActionRank(e[2])
        fa == ActionRank(f[2])
        et == order_index_by_obj_id[e[3]]
        ft == order_index_by_obj_id[f[3]]
    IN  \/ es < fs
        \/ es = fs /\ ea < fa
        \/ es = fs /\ ea = fa /\ et <= ft

RECURSIVE SortEdges(_)
SortEdges(S) ==
    IF S = {} THEN <<>>
    ELSE LET m == CHOOSE e \in S : \A f \in S : EdgeKeyLeq(e, f)
         IN  <<m>> \o SortEdges(S \ {m})

\* edges_by_container.get(c, []), for the rewritten edge set redges.
edges_by_container(c, redges) ==
    SortEdges({e \in redges : _edge_container(e[1], e[3]) = c})

(***************************************************************************)
(* Labels.                                                                 *)
(***************************************************************************)
\* The variable names used in a namespace, in sorted() order.
NameOrder == <<"a", "b">>

NameRank(name) == CHOOSE i \in 1..Len(NameOrder) : NameOrder[i] = name

Warning(msg, args) == [msg |-> msg, args |-> args]

\* Line 67: {id(v): [k] for k, v in namespace.items() if ...}.  The namespace
\* is the sequence of its (key, value) items in insertion order; a value of
\* None has no `successors` attribute.  An id met again replaces its entry.
names_by_obj_id(oid) ==
    LET at == {i \in 1..Len(namespace) : namespace[i][2] = oid /\ namespace[i][2] # None}
    IN  IF at = {} THEN <<>>
        ELSE <<namespace[CHOOSE i \in at : \A j \in at : j <= i][1]>>

\* sorted(names)
RECURSIVE SortNames(_)
SortNames(S) ==
    IF S = {} THEN <<>>
    ELSE LET m == CHOOSE n \in S : \A k \in S : NameRank(n) <= NameRank(k)
         IN  <<m>> \o SortNames(S \ {m})

ClassName(obj) == IF is_flow[obj] THEN "Flow" ELSE "Node"

\* _label_for(obj); st carries label_cache, unnamed_counter_by_class and the
\* warnings emitted so far.  The value is [label, st].
_label_for(obj, st) ==
    IF obj \in DOMAIN st.label_cache THEN [label |-> st.label_cache[obj], st |-> st]
    ELSE LET cls == ClassName(obj)
             names == names_by_obj_id(obj)
             n == st.unnamed_counter_by_class[cls] + 1
             label == IF names # <<>> THEN SortNames(SeqToSet(names))[1]
                      ELSE IF n = 1 THEN cls ELSE cls \o "#" \o ToString(n)
             warned == IF names # <<>>
                       THEN IF Len(names) > 1
                            THEN <<Warning("Multiple variable names for the same node/flow", SortNames(SeqToSet(names)))>>
                            ELSE <<>>
                       ELSE <<Warning("Missing variable name for object", <<cls>>)>>
         IN  [label |-> label,
              st |-> [st EXCEPT !.label_cache = (obj :> label) @@ @,
                                !.unnamed_counter_by_class =
                                    IF names # <<>> THEN @ ELSE [@ EXCEPT ![cls] = n],
                                !.warnings = @ \o warned]]

(***************************************************************************)
(* 5) Render Mermaid.                                                      *)
(***************************************************************************)
\* _escape on the strings of the model: "x|y" is the one with a character
\* that is escaped (in an edge label).
_escape(s, is_edge) == IF is_edge /\ s = "x|y" THEN "x\\|y" ELSE s

\* A line of the output: its text, with what it is about (the object, the
\* rewritten edge, the label used).  The two fence lines carry only what
\* follows their three backquotes, which a TLA+ string cannot hold.
Line(kind, oid, edge, label, text) ==
    [kind |-> kind, oid |-> oid, edge |-> edge, label |-> label, text |-> text]

_edge_line(src_oid, act, tgt_oid) ==
    LET s == mermaid_id_by_obj_id[src_oid]
        t == mermaid_id_by_obj_id[tgt_oid]
    IN  IF act = "default" /\ ~show_default
        THEN s \o " --> " \o t
        ELSE s \o " -->|" \o _escape(act, TRUE) \o "| " \o t

EdgeLines(es, indent) ==
    [i \in 1..Len(es) |-> Line("edge", None, es[i], "", indent \o _edge_line(es[i][1], es[i][2], es[i][3]))]

\* lines.append(indent + _node_def(oid))
AppendNodeDef(oid, indent, st) ==
    LET l == _label_for(oid, st)
        text == mermaid_id_by_obj_id[oid] \o "[\"" \o _escape(l.label, FALSE) \o "\"]"
    IN  [l.st EXCEPT !.lines = Append(@, Line("node", oid, <<>>, l.label, indent \o text))]

RECURSIVE AppendNodeDefs(_, _, _)
AppendNodeDefs(oids, indent, st) ==
    IF oids = <<>> THEN st
    ELSE AppendNodeDefs(Tail(oids), indent, AppendNodeDef(Head(oids), indent, st))

\* sorted(S, key=order_index_by_obj_id), for S a set of discovered objects.
SortByOrder(S) == SelectSeq(visit_order, LAMBDA oid : oid \in S)

\* A faulty ChildFlows: the `container == fid` test is dropped.
ChildFlowsOfAnyContainer(fid) ==
    {nid \in body_by_flow_id[fid] : is_flow[nid] /\ nid \in expanded_flow_ids}

\* Line 297: the flows rendered as nested subgraphs of fid.
ChildFlows(fid) ==
    {nid \in body_by_flow_id[fid] :
        is_flow[nid] /\ nid \in expanded_flow_ids /\ container_flow_by_node_id[nid] = fid}

RECURSIVE _render_flow(_, _, _)
RECURSIVE RenderFlows(_, _, _)
RenderFlows(fids, indent, st) ==
    IF fids = <<>> THEN st
    ELSE RenderFlows(Tail(fids), indent, _render_flow(Head(fids), indent, st))

_render_flow(fid, indent, st) ==
    IF fid \in st.rendering_stack THEN st
    ELSE LET l == _label_for(fid, st)
             sub_id == "subflow_" \o mermaid_id_by_obj_id[fid]
             head == Line("subgraph", fid, <<>>, l.label,
                          indent \o "subgraph " \o sub_id \o "[" \o _escape(l.label, FALSE) \o "]")
             inner_indent == indent \o "  "
             body == body_by_flow_id[fid]
             child_flow_ids == SortByOrder(ChildFlows(fid))
             nodes == SortByOrder({nid \in body : ~_is_expanded_flow(nid)
                                                  /\ container_flow_by_node_id[nid] = fid})
             st1 == [l.st EXCEPT !.rendering_stack = @ \cup {fid}, !.lines = Append(@, head)]
             st2 == AppendNodeDefs(nodes, inner_indent, st1)
             st3 == RenderFlows(child_flow_ids, inner_indent, st2)
         IN  [st3 EXCEPT !.lines = (@ \o EdgeLines(edges_by_container(fid, st.render_edges), inner_indent))
                                       \o <<Line("end", fid, <<>>, "", indent \o "end")>>,
                         !.rendered_flows = @ \cup {fid},
                         !.rendering_stack = @ \ {fid}]

\* Lines 317-319: the flows rendered at the top level after the root.
RECURSIVE RenderTopFlows(_, _)
RenderTopFlows(fids, st) ==
    IF fids = <<>> THEN st
    ELSE LET fid == Head(fids)
         IN  IF /\ fid # flow
                /\ fid \in expanded_flow_ids
                /\ container_flow_by_node_id[fid] = None
                /\ fid \notin st.rendered_flows
             THEN RenderTopFlows(Tail(fids), _render_flow(fid, "  ", st))
             ELSE RenderTopFlows(Tail(fids), st)

\* Lines 331-335: the real starts to highlight, and one warning per flow without.
highlight_ids ==
    {_real_start(fid) : fid \in {f \in SeqToSet(flow_ids) : _real_start(f) # None /\ _real_start(f) \in visited}}

HighlightWarnings ==
    LET unresolved == SelectSeq(flow_ids, LAMBDA f : ~(_real_start(f) # None /\ _real_start(f) \in visited))
    IN  [i \in 1..Len(unresolved) |-> Warning("Flow has no resolvable start_node", <<>>)]

HighlightLines ==
    IF highlight_ids = {} THEN <<>>
    ELSE LET rids == SortByOrder(highlight_ids)
         IN  <<Line("classDef", None, <<>>, "",
                    "  classDef pf_true_start stroke:#d33,stroke-width:3px,fill:#fff5f5;")>>
             \o [i \in 1..Len(rids) |->
                    Line("class", rids[i], <<>>, "", "  class " \o mermaid_id_by_obj_id[rids[i]] \o " pf_true_start")]

\* str.upper() on the direction strings of the model: each one with a
\* lower-case letter is listed with its upper-case form; the others (the
\* five valid values as the output spells them) have none to change.
Upper(s) ==
    CASE s \in {"lr", "Lr", "lR"} -> "LR"
      [] s \in {"rl", "Rl", "rL"} -> "RL"
      [] s \in {"tb", "Tb", "tB"} -> "TB"
      [] s \in {"td", "Td", "tD"} -> "TD"
      [] s \in {"bt", "Bt", "bT"} -> "BT"
      [] s = "sideways" -> "SIDEWAYS"
      [] s \in {"LR", "RL", "TB", "TD", "BT", "SIDEWAYS"} -> s

\* Line 54: direction_u = (direction or "LR").upper().
direction_u == Upper(IF direction = "" THEN "LR" ELSE direction)

\* Lines 260-343 for the rewritten edge set redges: the value is [lines,
\* warnings] at the return.
RenderingOf(redges) ==
    LET start_target_oid == IF _is_expanded_flow(flow) THEN _real_start(flow) ELSE flow
        st0 == [lines |-> <<Line("fence", None, <<>>, "", "mermaid"),
                            Line("flowchart", None, <<>>, "", "flowchart " \o direction_u),
                            Line("start", start_target_oid, <<>>, "",
                                 "  start((Start)) --> " \o mermaid_id_by_obj_id[start_target_oid])>>,
                render_edges |-> redges,
                rendered_flows |-> {},
                rendering_stack |-> {},
                label_cache |-> <<>>,
                unnamed_counter_by_class |-> [cls \in {"Flow", "Node"} |-> 0],
                warnings |-> warnings]
        st1 == IF flow \in expanded_flow_ids THEN _render_flow(flow, "  ", st0) ELSE st0
        st2 == RenderTopFlows(flow_ids, st1)
        st3 == AppendNodeDefs(SelectSeq(visit_order,
                                        LAMBDA oid : ~_is_expanded_flow(oid)
                                                     /\ container_flow_by_node_id[oid] = None),
                              "  ", st2)
        st4 == [st3 EXCEPT !.lines = @ \o EdgeLines(edges_by_container(None, redges), "  ")]
        st5 == IF highlight_starts
               THEN [st4 EXCEPT !.lines = @ \o HighlightLines, !.warnings = @ \o HighlightWarnings]
               ELSE st4
    IN  [lines |-> Append(st5.lines, Line("fence", None, <<>>, "", "")), warnings |-> st5.warnings]

Rendering == RenderingOf(render_edges)

(***************************************************************************)
(* Inputs: the object graph and the arguments of the call.                 *)
(***************************************************************************)
\* The graphs over the objects `ids` whose successors dicts have keys among
\* `keys` and values among `vals`.
GraphInit(ids, keys, vals) ==
    /\ is_flow \in [ids -> BOOLEAN]
    /\ start_node \in {s \in [ids -> ids \cup {None}] : \A o \in ids : ~is_flow[o] => s[o] = None}
    /\ successors \in [ids -> Dicts(keys, vals)]

\* The namespaces of at most MaxNames items, with distinct keys, over `vals`.
Namespaces(vals) ==
    LET items == {<<k, v>> : k \in SeqToSet(NameOrder), v \in vals}
    IN  UNION {{ns \in [1..n -> items] : \A i, j \in 1..n : i # j => ns[i][1] # ns[j][1]} : n \in 0..MaxNames}

\* Every graph of MaxObjs objects with single-key successors dicts, under
\* every node budget up to MaxObjs, with and without highlighting.
InitGraphs ==
    /\ GraphInit(1..MaxObjs, {"default"}, (1..MaxObjs) \cup {None})
    /\ namespace = <<>>
    /\ direction = "LR"
    /\ show_default = FALSE
    /\ highlight_starts \in BOOLEAN
    /\ max_nodes \in 0..MaxObjs

\* Every graph of MaxBranchObjs objects with up to two successors each, with
\* both settings of show_default, and a lower-case, a mixed-case, an empty
\* and an invalid direction.
InitBranching ==
    /\ GraphInit(1..MaxBranchObjs, SeqToSet(ActionOrder), 1..MaxBranchObjs)
    /\ namespace = <<>>
    /\ direction \in {"td", "Rl", "", "sideways"}
    /\ show_default \in BOOLEAN
    /\ highlight_starts = TRUE
    /\ max_nodes = DefaultMaxNodes

\* Every namespace of at most MaxNames items over a graph of MaxBranchObjs objects.
InitNamespaces ==
    /\ GraphInit(1..MaxBranchObjs, {"default"}, (1..MaxBranchObjs) \cup {None})
    /\ namespace \in Namespaces((1..MaxBranchObjs) \cup {None})
    /\ direction = "LR"
    /\ show_default = FALSE
    /\ highlight_starts = TRUE
    /\ max_nodes = DefaultMaxNodes

\* Nested flows: the entry flow 1 and a flow 2 each delegate to one of the
\* flows 3 and 4, which have no successors and start at the nodes 5 and 6.
InitNested ==
    /\ is_flow = [o \in 1..6 |-> o <= 4]
    /\ start_node \in {s \in [1..6 -> 0..6] :
                          /\ s[1] \in {3, 4} /\ s[2] \in {3, 4}
                          /\ s[3] = 5 /\ s[4] = 6 /\ s[5] = None /\ s[6] = None}
    /\ successors \in {d \in [1..6 -> Dicts({"default"}, 1..6)] :
                          /\ d[1] = [a \in {"default"} |-> 2]
                          /\ d[3] = <<>> /\ d[4] = <<>>
                          /\ \A o \in {2} : \A a \in DOMAIN d[o] : d[o][a] \in {1, 5, 6}
                          /\ \A o \in {5, 6} : \A a \in DOMAIN d[o] : d[o][a] \in {3, 4, 5, 6}}
    /\ namespace = <<>>
    /\ direction = "LR"
    /\ show_default = FALSE
    /\ highlight_starts = TRUE
    /\ max_nodes = DefaultMaxNodes

\* The state of a call before its first statement.
CallStart ==
    /\ pc = "validate"
    /\ error = "none"
    /\ visit_order = <<>>
    /\ edges = {}
    /\ body_by_flow_id = <<>>
    /\ container_flow_by_node_id = <<>>
    /\ parent_flow_by_flow_id = <<>>
    /\ pending = {}
    /\ render_edges = {}
    /\ exit_cache = <<>>
    /\ lines = <<>>
    /\ warnings = <<>>

Init == (InitGraphs \/ InitBranching \/ InitNamespaces \/ InitNested) /\ CallStart

\* Lines 54-65: argument validation, and the warning for an empty namespace.
Validate ==
    /\ pc = "validate"
    /\ IF direction_u \notin {"LR", "RL", "TB", "TD", "BT"} \/ max_nodes <= 0
       THEN pc' = "raised" /\ error' = "ValueError" /\ warnings' = warnings
       ELSE /\ pc' = "discover"
            /\ error' = error
            /\ warnings' = IF namespace = <<>>
                           THEN <<Warning("Missing namespace; falling back to class-name labels", <<>>)>>
                           ELSE warnings
    /\ UNCHANGED <<graph_vars, arg_vars, discovery_vars, containment_vars, rewrite_vars, lines>>

\* Lines 95-122.
Discover ==
    /\ pc = "discover"
    /\ LET r == Discovery
       IN  IF r.raised
           THEN /\ pc' = "raised"
                /\ error' = "RuntimeError"
                /\ UNCHANGED discovery_vars
           ELSE /\ pc' = "contain"
                /\ error' = error
                /\ visit_order' = r.visit_order
                /\ edges' = r.edges
    /\ UNCHANGED <<graph_vars, arg_vars, containment_vars, rewrite_vars, output_vars>>

\* Lines 124-157.
Contain ==
    /\ pc = "contain"
    /\ LET bodies == [fid \in SeqToSet(flow_ids) |-> Body(fid)]
           containers == Containers(bodies)
       IN  /\ body_by_flow_id' = bodies
           /\ container_flow_by_node_id' = containers
           /\ parent_flow_by_flow_id' = Parents(containers)
    /\ pending' = edges
    /\ pc' = IF edges = {} THEN "render" ELSE "rewrite"
    /\ UNCHANGED <<graph_vars, arg_vars, error, discovery_vars, render_edges, exit_cache, output_vars>>

\* Lines 231-239, one edge of the set per step, in any order.
RewriteEdge ==
    /\ pc = "rewrite"
    /\ \E e \in pending, ord \in LeafOrders :
          LET r == RewriteOne(e, ord, render_edges, exit_cache)
          IN  /\ render_edges' = r.render_edges
              /\ exit_cache' = r.exit_cache
              /\ pending' = pending \ {e}
              /\ pc' = IF pending \ {e} = {} THEN "render" ELSE "rewrite"
    /\ UNCHANGED <<graph_vars, arg_vars, error, discovery_vars, containment_vars, output_vars>>

\* Lines 260-343.
Render ==
    /\ pc = "render"
    /\ LET r == Rendering
       IN  /\ lines' = r.lines
           /\ warnings' = r.warnings
    /\ pc' = "done"
    /\ UNCHANGED <<graph_vars, arg_vars, error, discovery_vars, containment_vars, rewrite_vars>>

Next == Validate \/ Discover \/ Contain \/ RewriteEdge \/ Render

Spec == Init /\ [][Next]_vars

(***************************************************************************)
(* Properties.                                                             *)
(***************************************************************************)
AfterDiscovery == pc \in {"contain", "rewrite", "render", "done"}
AfterContainment == pc \in {"rewrite", "render", "done"}
Rewritten == pc \in {"render", "done"}

ValidArgs == direction_u \in {"LR", "RL", "TB", "TD", "BT"} /\ max_nodes > 0

\* The objects reachable from the entry through non-None successors values
\* and, for Flows, start_node: the least set closed under both.
ReachStep(S) ==
    S \cup {start_node[o] : o \in {x \in S : is_flow[x] /\ start_node[x] # None}}
      \cup UNION {{successors[o][a] : a \in DOMAIN successors[o]} \ {None} : o \in S}

RECURSIVE ReachClosure(_)
ReachClosure(S) == IF ReachStep(S) = S THEN S ELSE ReachClosure(ReachStep(S))

Reachable == ReachClosure({flow})

\* The k-th object of the start_node chain of f (None once the chain has ended).
RECURSIVE StartChain(_, _)
StartChain(f, k) ==
    IF k = 0 THEN f
    ELSE LET p == StartChain(f, k - 1)
         IN  IF p # None /\ is_flow[p] THEN start_node[p] ELSE None

\* A non-Flow, or a Flow with no start_node.
ChainEnd(x) == x # None /\ (~is_flow[x] \/ start_node[x] = None)

\* The chain of f reaches its end at step k and not before.
EndsAt(f, k) == ChainEnd(StartChain(f, k)) /\ \A i \in 1..(k - 1) : ~ChainEnd(StartChain(f, i))

ChainSteps == 1..Cardinality(Ids)

\* Following start_node from f comes back to an identity already met.
Revisits(f) ==
    \E i, j \in 0..Cardinality(Ids) : i < j /\ StartChain(f, i) # None /\ StartChain(f, i) = StartChain(f, j)

LinesAbout(kind, oid) == {i \in 1..Len(lines) : lines[i].kind = kind /\ lines[i].oid = oid}

EdgeLinesOf(e) == {i \in 1..Len(lines) : lines[i].kind = "edge" /\ lines[i].edge = e}

UnresolvedWarnings ==
    {i \in 1..Len(warnings) : warnings[i] = Warning("Flow has no resolvable start_node", <<>>)}

\* The whole loop of lines 232-239 over the edges in the order es.
RECURSIVE RewriteAll(_, _, _, _)
RewriteAll(es, ord, redges, cache) ==
    IF es = <<>> THEN [render_edges |-> redges, exit_cache |-> cache]
    ELSE LET r == RewriteOne(Head(es), ord, redges, cache)
         IN  RewriteAll(Tail(es), ord, r.render_edges, r.exit_cache)

\* The output when the edge set and the leaf sets are iterated in sorted order.
SortedOrderLines ==
    LET ord == SortByOrder({oid \in expanded_flow_ids : DOMAIN successors[oid] = {}})
    IN  RenderingOf(RewriteAll(SortEdges(edges), ord, {}, <<>>).render_edges).lines

\* C1 (as claimed): the emitted lines are a function of the graph and the
\* configuration only: whatever the order in which the discovered-edge set
\* was iterated during rewriting, the lines returned are those obtained
\* with the sorted order.
C1_OrderIndependentOutput == pc = "done" => lines = SortedOrderLines

\* Some flow is reached again by following parent pointers from it.
RECURSIVE ParentChain(_, _)
ParentChain(f, k) ==
    IF k = 0 THEN f
    ELSE LET p == ParentChain(f, k - 1)
         IN  IF p # None THEN parent_flow_by_flow_id[p] ELSE None

OnParentCycle(f) == \E k \in 1..Len(flow_ids) : ParentChain(f, k) = f

\* C2 (as claimed): after containment resolution no flow is its own
\* container and following parent pointers from a flow never returns to it.
C2_ContainmentForest ==
    AfterContainment =>
        \A f \in SeqToSet(flow_ids) : container_flow_by_node_id[f] # f /\ ~OnParentCycle(f)

\* C2 (amended): no flow is its own parent: the parent of a flow, when it has
\* one, is another flow, the first in visitation order whose body holds it,
\* and a flow whose first claiming flow is itself or none has no parent.
C2_NoSelfParent ==
    AfterContainment =>
        \A f \in SeqToSet(flow_ids) :
            LET p == parent_flow_by_flow_id[f]
                claiming == {i \in 1..Len(flow_ids) : f \in body_by_flow_id[flow_ids[i]]}
            IN  /\ p # f
                /\ p # None => /\ is_flow[p] /\ p \in visited
                               /\ \E i \in claiming : flow_ids[i] = p /\ \A j \in claiming : i <= j
                /\ p = None => \/ claiming = {}
                               \/ \E i \in claiming : flow_ids[i] = f /\ \A j \in claiming : i <= j

\* A flow that lies in its own body (it is its own container and has no
\* parent) and is the parent of another flow.
C2_Witness ==
    /\ AfterContainment
    /\ \E f, g \in SeqToSet(flow_ids) :
          /\ f # g
          /\ container_flow_by_node_id[f] = f /\ parent_flow_by_flow_id[f] = None
          /\ parent_flow_by_flow_id[g] = f

\* C3 (as claimed): when a discovered flow's start_node chain revisits an
\* identity, the call that returns has emitted the warning about the
\* unresolvable start, for every option setting.
C3_CycleAlwaysWarns ==
    (pc = "done" /\ \E f \in visited : is_flow[f] /\ Revisits(f)) => UnresolvedWarnings # {}

\* C3 (amended): real-start resolution yields "unresolved" (None) for every
\* flow whose start_node chain revisits an identity; with valid arguments and
\* a node budget that is not exceeded the call does not raise; and the call
\* that returns has emitted one unresolvable-start warning per discovered
\* flow without real start when highlight_starts is set, and none otherwise.
C3_CycleUnresolved ==
    /\ \A f \in Ids : (is_flow[f] /\ Revisits(f)) => _real_start(f) = None
    /\ (ValidArgs /\ Cardinality(Reachable) <= max_nodes) => pc # "raised"
    /\ pc = "done" =>
          Cardinality(UnresolvedWarnings) =
              IF highlight_starts
              THEN Cardinality({f \in SeqToSet(flow_ids) : _real_start(f) = None})
              ELSE 0

\* Two flows that delegate to each other, rendered with highlighting: both
\* unresolved, both warned about.
C3_Witness ==
    /\ pc = "done"
    /\ highlight_starts
    /\ \E f, g \in visited :
          /\ f # g /\ is_flow[f] /\ is_flow[g]
          /\ start_node[f] = g /\ start_node[g] = f
          /\ _real_start(f) = None /\ _real_start(g) = None
    /\ Cardinality(UnresolvedWarnings) >= 2

\* C4: the real start of a flow whose start_node chain reaches a first object
\* that is a non-Flow or a Flow without start_node is that object; and once
\* the edges are rewritten, every discovered edge into such a flow appears
\* with that object as target, and no rewritten edge targets the flow.
C4_RealStartAndEntry ==
    /\ \A f \in Ids : \A k \in ChainSteps :
          (is_flow[f] /\ EndsAt(f, k)) => _real_start(f) = StartChain(f, k)
    /\ Rewritten =>
          \A e \in edges : \A k \in ChainSteps :
              (is_flow[e[3]] /\ EndsAt(e[3], k)) =>
                  /\ \E r \in render_edges : r[2] = e[2] /\ r[3] = StartChain(e[3], k)
                  /\ \A r \in render_edges : r[3] # e[3]

\* F1 -> F2 -> N by start_node, and an edge into F1 from outside its body,
\* rewired to N.
C4_Witness ==
    /\ pc = "done"
    /\ \E f1, f2, n \in visited :
          /\ is_flow[f1] /\ is_flow[f2] /\ ~is_flow[n]
          /\ start_node[f1] = f2 /\ start_node[f2] = n
          /\ _real_start(f1) = n
          /\ \E e \in edges :
                /\ e[3] = f1
                /\ e[1] \notin body_by_flow_id[f1] \cup {f1}
                /\ \E r \in render_edges : r[2] = e[2] /\ r[3] = n

\* C5: with valid arguments, the call fails with the budget error exactly
\* when more objects are reachable from the entry than max_nodes; otherwise
\* it raises nothing, is never left without a next step before it returns,
\* and returns the diagram text.
C5_NodeBudget ==
    ValidArgs =>
        /\ Cardinality(Reachable) > max_nodes =>
              /\ pc \in {"validate", "discover", "raised"}
              /\ pc = "raised" => error = "RuntimeError"
        /\ Cardinality(Reachable) <= max_nodes =>
              /\ pc # "raised" /\ error = "none"
              /\ pc = "rewrite" => pending # {} /\ pending \subseteq edges
              /\ pc = "done" => Len(lines) >= 4 /\ pending = {}

\* The budget error on a graph with a successor cycle, one object over budget.
C5_Witness ==
    /\ pc = "raised" /\ error = "RuntimeError"
    /\ max_nodes = Cardinality(Reachable) - 1
    /\ max_nodes >= 2
    /\ \E o \in Reachable : \E a \in DOMAIN successors[o] : successors[o][a] = o

\* C6: when the budget is not exceeded, the discovered set is the set
\* reachable from the entry; no identity occurs twice in the visitation
\* order; both endpoints of every recorded edge are discovered; and when no
\* discovered object is a flow, the output declares each discovered object
\* once and nothing else.
C6_DiscoveryComplete ==
    AfterDiscovery =>
        /\ visited = Reachable
        /\ \A i, j \in 1..Len(visit_order) : visit_order[i] = visit_order[j] => i = j
        /\ \A e \in edges : e[1] \in visited /\ e[3] \in visited
        /\ (pc = "done" /\ \A o \in visited : ~is_flow[o]) =>
              /\ \A o \in visited : Cardinality(LinesAbout("node", o)) = 1
              /\ Cardinality({i \in 1..Len(lines) : lines[i].kind = "node"}) = Cardinality(visited)

\* A returned call on a graph without flows, two objects discovered (one
\* through a successor), a third not reachable.
C6_Witness ==
    /\ pc = "done"
    /\ \A o \in Ids : ~is_flow[o]
    /\ Cardinality(visited) = 2
    /\ Ids \ visited # {}
    /\ edges # {}

\* C7 (as claimed): every discovered flow that is not expanded is declared
\* by exactly one node line, opens no subgraph block, and contributes no
\* node to the highlight set.
C7_OpaqueFlowDeclaredOnce ==
    pc = "done" =>
        \A f \in SeqToSet(flow_ids) :
            ~_is_expanded_flow(f) =>
                /\ Cardinality(LinesAbout("node", f)) = 1
                /\ LinesAbout("subgraph", f) = {}
                /\ _real_start(f) = None

NamesBound(oid) == {namespace[i][1] : i \in {j \in 1..Len(namespace) : namespace[j][2] = oid}}

\* C8 (as claimed): an object bound to two or more names is labelled with the
\* lexicographically smallest of them, and one warning lists all its names.
C8_SmallestNameAndWarning ==
    pc = "done" =>
        \A o \in visited :
            (Cardinality(NamesBound(o)) >= 2 /\ LinesAbout("node", o) \cup LinesAbout("subgraph", o) # {}) =>
                /\ \A i \in LinesAbout("node", o) \cup LinesAbout("subgraph", o) :
                      lines[i].label = SortNames(NamesBound(o))[1]
                /\ Cardinality({i \in 1..Len(warnings) :
                                   warnings[i] = Warning("Multiple variable names for the same node/flow",
                                                         SortNames(NamesBound(o)))}) = 1

\* C9: no flow opens more than one subgraph block (nor closes more than
\* one), and no block of a flow lies inside a block of the same flow.
C9_FlowRenderedOnce ==
    pc = "done" =>
        \A f \in SeqToSet(flow_ids) :
            /\ Cardinality(LinesAbout("subgraph", f)) <= 1
            /\ Cardinality(LinesAbout("end", f)) = Cardinality(LinesAbout("subgraph", f))
            /\ \A i \in LinesAbout("subgraph", f) : \A j \in LinesAbout("end", f) : i < j

\* The root flow lies in the body of a flow that is its own child (cyclic
\* containment): both are rendered, once each.
C9_Witness ==
    /\ pc = "done"
    /\ \E g \in SeqToSet(flow_ids) :
          /\ g # flow
          /\ container_flow_by_node_id[g] = flow
          /\ container_flow_by_node_id[flow] = g
          /\ Cardinality(LinesAbout("subgraph", flow)) = 1
          /\ Cardinality(LinesAbout("subgraph", g)) = 1

\* C10 (as claimed): every rewritten edge is emitted as exactly one edge line.
C10_EveryEdgeEmitted ==
    pc = "done" => \A e \in render_edges : Cardinality(EdgeLinesOf(e)) = 1

====
